---- MODULE Spec2Model ----
(***************************************************************************)
(* sublock: a coarse lock (MainLock / MainCell) whose protected value      *)
(* holds sub-cells (SubCell).  Three designs are modelled:                 *)
(*   "prooflock"  sync::prooflock  - RwLock + Proof / ProofMut tokens      *)
(*   "proofcell"  cell::proofcell  - RefCell + Proof / ProofMut tokens     *)
(*   "atomlock"   sync::atomlock   - RwLock + Arc<Liveness> atomic flags   *)
(* The library has no state of its own: the state is that of the lock      *)
(* instances, of the guards, tokens and sub-cells that safe client code    *)
(* holds, and of the atomics.  A holder is a thread (sync) or a scope of   *)
(* the one thread (cell); it holds at most one guard and one token per     *)
(* lock instance.                                                          *)
(***************************************************************************)
EXTENDS Integers, Sequences, FiniteSets, TLC

\* ------------------------------------------------------------- bounds
NumHolders == 2
NumAddrs == 2
MaxWrites == 2
MaxRefs == 2

Holders == 1..NumHolders
\* the coarse-lock instances a client may construct
Locks == {"A", "B"}
\* candidate addresses of the `value` argument of MainLock::new
Addrs == 1..NumAddrs
\* sub-cells share no state with each other: one is followed
Cells == {"c"}
\* payloads, as in the doc tests
Vals == {42, 99}

VARIABLES
    design,     \* which module the client uses
    locks,      \* the instances the client uses: two instances with one
    holders,    \*   holder, or one instance with NumHolders holders
    alive,      \* token designs: [Locks -> BOOLEAN], the instance exists
    ownership,  \* token designs: MainLock.ownership / MainCell.ownership
    poisoned,   \* RwLock poison flag per lock
    guard,      \* [Holders -> [Locks -> guard state]]
    token,      \* [Holders -> [Locks -> Proof / ProofMut / none]]
    panicking,  \* [Holders -> BOOLEAN], the holder is unwinding
    cells,      \* [Cells -> sub-cell record]
    life,       \* atomlock: stage of the MainLock's life
    is_alive,   \* atomlock: modification order of Liveness.is_alive
    is_mut,     \* atomlock: modification order of Liveness.is_mut
    view,       \* atomlock: [Holders -> index into each modification order]
    lockView,   \* atomlock: view released into the RwLock by unlocks
    refs,       \* [Holders -> [Cells -> references the holder keeps]]
    ev          \* the last operation and its outcome

vars == <<design, locks, holders, alive, ownership, poisoned, guard, token, panicking, cells,
          life, is_alive, is_mut, view, lockView, refs, ev>>

tokenVars == <<alive, ownership, token>>
atomVars == <<life, is_alive, is_mut, view, lockView>>

\* ------------------------------------------------------------- values
NoToken == [kind |-> "none", key |-> 0]
Proof(key) == [kind |-> "Proof", key |-> key]
ProofMut(key) == [kind |-> "ProofMut", key |-> key]

\* home: the lock whose protected value stores the sub-cell, or "outside"
\* (a sub-cell kept or shared by the client outside any protected value).
\* of: history only, the instance whose token or liveness record created it
\* ("gone" once that instance is dropped).
NoCell == [st |-> "absent", home |-> "none", owner_key |-> 0, val |-> 0,
           of |-> "none"]

Event(op, h, l, c, res, v) ==
    [op |-> op, h |-> h, l |-> l, c |-> c, res |-> res, val |-> v]
\* constructions and drops return nothing
Quiet == Event("none", 0, "none", "none", "ok", 0)

\* the references into a sub-cell that a holder keeps: the &'a T returned by
\* borrow and the &'a mut T returned by borrow_mut live as long as the
\* borrow &'a self of the sub-cell, whatever becomes of the token
NoRefs == [shared |-> 0, mut |-> 0]

\* ------------------------------------------------------------- RwLock / RefCell
WriteStates == {"wlocked", "write", "wdropped"}
Readers(l) == {h \in holders : guard[h][l] = "read"}
Writers(l) == {h \in holders : guard[h][l] \in WriteStates}

\* std RwLock::read / RefCell::try_borrow succeed when no writer holds it
CanRead(l) == Writers(l) = {}
\* std RwLock::write / RefCell::try_borrow_mut succeed when nobody holds it
CanWrite(l) == Readers(l) = {} /\ Writers(l) = {}

LockResult(l) == IF poisoned[l] THEN "poisoned" ELSE "ok"

\* a holder that may start an acquisition of l
Free(h, l) ==
    /\ ~panicking[h]
    /\ guard[h][l] = "none"
    /\ token[h][l] = NoToken

\* the sub-cells a holder can name: those outside, and those stored in a
\* protected value it holds a guard on (Deref of the guard)
CanReach(h, c) ==
    /\ cells[c].st = "live"
    /\ \/ cells[c].home = "outside"
       \/ /\ cells[c].home \in Locks
          /\ guard[h][cells[c].home] \in {"read", "write"}

\* the references of kind k into sub-cell c that are kept, over all holders
Kept(c, k) ==
    Cardinality({p \in Holders \X (1..MaxRefs) : p[2] <= refs[p[1]][c][k]})

\* a reference into a sub-cell found through a guard (Deref) borrows that
\* guard: the guard is not dropped before the reference
KeepsNoneIn(h, l) ==
    \A c \in Cells : cells[c].home = l => refs[h][c] = NoRefs

\* ------------------------------------------------------------- token designs
\* MainLock::new / MainCell::new: the key is the address of the by-value
\* argument `value`, a slot of new's own frame that is free again on return
new(l, a) ==
    /\ design \in {"prooflock", "proofcell"}
    /\ ~alive[l]
    /\ alive' = [alive EXCEPT ![l] = TRUE]
    /\ ownership' = [ownership EXCEPT ![l] = a]
    /\ poisoned' = [poisoned EXCEPT ![l] = FALSE]
    /\ ev' = Quiet
    /\ UNCHANGED <<refs, design, locks, holders, guard, token, panicking, cells, atomVars>>

\* the instance goes out of scope: no guard and no token borrows it ('a)
drop_main(l) ==
    /\ design \in {"prooflock", "proofcell"}
    /\ alive[l]
    /\ \A h \in holders : guard[h][l] = "none" /\ token[h][l] = NoToken
    /\ alive' = [alive EXCEPT ![l] = FALSE]
    /\ ownership' = [ownership EXCEPT ![l] = 0]
    /\ poisoned' = [poisoned EXCEPT ![l] = FALSE]
    /\ cells' = [c \in Cells |->
                   IF cells[c].home = l THEN NoCell
                   ELSE IF cells[c].of = l THEN [cells[c] EXCEPT !.of = "gone"]
                   ELSE cells[c]]
    /\ ev' = Quiet
    /\ UNCHANGED <<refs, design, locks, holders, guard, token, panicking, atomVars>>

\* faulty variant of Acquire: a poisoned lock is reported without the pair
Acquire_ok_only(op, h, l, g, tok) ==
    /\ guard' = IF poisoned[l] THEN guard ELSE [guard EXCEPT ![h][l] = g]
    /\ token' = IF poisoned[l] THEN token ELSE [token EXCEPT ![h][l] = tok]
    /\ ev' = Event(op, h, l, "none", LockResult(l), 0)
    /\ UNCHANGED <<refs, design, locks, holders, alive, ownership, poisoned, panicking, cells, atomVars>>

\* Ok((proof, ok)) / Err(Poisoned((proof, guard))): the pair is handed out
Acquire(op, h, l, g, tok) ==
    /\ guard' = [guard EXCEPT ![h][l] = g]
    /\ token' = [token EXCEPT ![h][l] = tok]
    /\ ev' = Event(op, h, l, "none", LockResult(l), 0)
    /\ UNCHANGED <<refs, design, locks, holders, alive, ownership, poisoned, panicking, cells, atomVars>>

\* faulty variant of Refuse: the token built before the match is handed out
\* with the error
Refuse_handing_token(op, h, l, res) ==
    /\ token' = [token EXCEPT ![h][l] = Proof(ownership[l])]
    /\ ev' = Event(op, h, l, "none", res, 0)
    /\ UNCHANGED <<refs, design, locks, holders, alive, ownership, poisoned, guard, panicking,
                   cells, atomVars>>

\* Err(WouldBlock) / Err(BorrowError): nothing is handed out
Refuse(op, h, l, res) ==
    /\ ev' = Event(op, h, l, "none", res, 0)
    /\ UNCHANGED <<refs, design, locks, holders, alive, ownership, poisoned, guard, token, panicking,
                   cells, atomVars>>

\* faulty variant of read: the pair is handed out without waiting for the writer
read_without_waiting(h, l) ==
    /\ design = "prooflock" /\ alive[l] /\ Free(h, l)
    /\ Acquire("read", h, l, "read", Proof(ownership[l]))

read(h, l) ==
    /\ design = "prooflock" /\ alive[l] /\ Free(h, l)
    /\ CanRead(l)
    /\ Acquire("read", h, l, "read", Proof(ownership[l]))

\* faulty variant of try_read: the call waits for the writer as read does
try_read_waiting(h, l) ==
    /\ design = "prooflock" /\ alive[l] /\ Free(h, l)
    /\ CanRead(l)
    /\ Acquire("try_read", h, l, "read", Proof(ownership[l]))

try_read(h, l) ==
    /\ design = "prooflock" /\ alive[l] /\ Free(h, l)
    /\ IF CanRead(l)
       THEN Acquire("try_read", h, l, "read", Proof(ownership[l]))
       ELSE Refuse("try_read", h, l, "WouldBlock")

write(h, l) ==
    /\ design = "prooflock" /\ alive[l] /\ Free(h, l)
    /\ CanWrite(l)
    /\ Acquire("write", h, l, "write", ProofMut(ownership[l]))

try_write(h, l) ==
    /\ design = "prooflock" /\ alive[l] /\ Free(h, l)
    /\ IF CanWrite(l)
       THEN Acquire("try_write", h, l, "write", ProofMut(ownership[l]))
       ELSE Refuse("try_write", h, l, "WouldBlock")

try_borrow(h, l) ==
    /\ design = "proofcell" /\ alive[l] /\ Free(h, l)
    /\ IF CanRead(l)
       THEN Acquire("try_borrow", h, l, "read", Proof(ownership[l]))
       ELSE Refuse("try_borrow", h, l, "BorrowError")

\* faulty variant of try_borrow_mut: the pair is handed out next to read guards
try_borrow_mut_shared(h, l) ==
    /\ design = "proofcell" /\ alive[l] /\ Free(h, l)
    /\ IF CanRead(l)
       THEN Acquire("try_borrow_mut", h, l, "write", ProofMut(ownership[l]))
       ELSE Refuse("try_borrow_mut", h, l, "BorrowMutError")

try_borrow_mut(h, l) ==
    /\ design = "proofcell" /\ alive[l] /\ Free(h, l)
    /\ IF CanWrite(l)
       THEN Acquire("try_borrow_mut", h, l, "write", ProofMut(ownership[l]))
       ELSE Refuse("try_borrow_mut", h, l, "BorrowMutError")

\* faulty variant of drop_guard: releasing the guard also resets the payloads stored
\* in the protected value
drop_guard_resetting(h, l) ==
    /\ design \in {"prooflock", "proofcell"}
    /\ guard[h][l] \in {"read", "write"}
    /\ KeepsNoneIn(h, l)
    /\ guard' = [guard EXCEPT ![h][l] = "none"]
    /\ cells' = [c \in Cells |-> IF cells[c].home = l
                                  THEN [cells[c] EXCEPT !.val = 42]
                                  ELSE cells[c]]
    /\ ev' = Quiet
    /\ UNCHANGED <<refs, design, locks, holders, alive, ownership, poisoned, token,
                   panicking, atomVars>>

\* the guard half of the pair is dropped; the token half is a value of its
\* own (Proof<'a> borrows the lock, not the guard) and stays with the holder.
\* A write guard dropped while unwinding poisons the RwLock.
drop_guard(h, l) ==
    /\ design \in {"prooflock", "proofcell"}
    /\ guard[h][l] \in {"read", "write"}
    /\ KeepsNoneIn(h, l)
    /\ guard' = [guard EXCEPT ![h][l] = "none"]
    /\ poisoned' = [poisoned EXCEPT ![l] =
                      @ \/ (design = "prooflock" /\ guard[h][l] = "write"
                            /\ panicking[h])]
    /\ ev' = Quiet
    /\ UNCHANGED <<refs, design, locks, holders, alive, ownership, token, panicking, cells, atomVars>>

\* the token half of the pair is dropped
drop_proof(h, l) ==
    /\ design \in {"prooflock", "proofcell"}
    /\ token[h][l] # NoToken
    /\ token' = [token EXCEPT ![h][l] = NoToken]
    /\ ev' = Quiet
    /\ UNCHANGED <<refs, design, locks, holders, alive, ownership, poisoned, guard, panicking, cells,
                   atomVars>>

\* where a holder can put a new sub-cell: outside, or into a protected value
\* it holds the write guard of (DerefMut)
Homes(h) == {"outside"} \cup {l \in Locks : guard[h][l] = "write"}

\* SubCell::new(&proof, value), proof: &ProofMut
SubCell_new(h, l, c, v, home) ==
    /\ design \in {"prooflock", "proofcell"}
    /\ ~panicking[h]
    /\ token[h][l].kind = "ProofMut"
    /\ cells[c].st = "absent"
    /\ home \in Homes(h)
    /\ cells' = [cells EXCEPT ![c] =
                   [st |-> "live", home |-> home, owner_key |-> token[h][l].key,
                    val |-> v, of |-> l]]
    /\ ev' = Event("SubCell_new", h, l, c, "ok", v)
    /\ UNCHANGED <<refs, design, locks, holders, alive, ownership, poisoned, guard, token, panicking,
                   atomVars>>

\* assert_eq!(self.owner_key, proof.0) failed: the holder unwinds
AssertFailed(op, h, l, c) ==
    /\ panicking' = [panicking EXCEPT ![h] = TRUE]
    /\ ev' = Event(op, h, l, c, "panic", 0)
    /\ UNCHANGED <<refs, design, locks, holders, alive, ownership, poisoned, guard, token, cells,
                   atomVars>>

\* SubCell::borrow(&proof), proof: &Proof or &ProofMut
borrow(h, l, c) ==
    /\ design \in {"prooflock", "proofcell"}
    /\ ~panicking[h]
    /\ token[h][l] # NoToken
    /\ CanReach(h, c)
    /\ IF cells[c].owner_key = token[h][l].key
       THEN /\ ev' = Event("borrow", h, l, c, "ref", cells[c].val)
            /\ UNCHANGED <<refs, design, locks, holders, alive, ownership, poisoned, guard, token,
                           panicking, cells, atomVars>>
       ELSE AssertFailed("borrow", h, l, c)

\* *SubCell::borrow_mut(&proof) = v, proof: &ProofMut
borrow_mut(h, l, c, v) ==
    /\ design \in {"prooflock", "proofcell"}
    /\ ~panicking[h]
    /\ token[h][l].kind = "ProofMut"
    /\ CanReach(h, c)
    /\ IF cells[c].owner_key = token[h][l].key
       THEN /\ cells' = [cells EXCEPT ![c].val = v]
            /\ ev' = Event("borrow_mut", h, l, c, "ref", v)
            /\ UNCHANGED <<refs, design, locks, holders, alive, ownership, poisoned, guard, token,
                           panicking, atomVars>>
       ELSE AssertFailed("borrow_mut", h, l, c)

\* let r = cell.borrow(..) / let m = cell.borrow_mut(..): the caller keeps
\* the reference that the call has just returned
hold_ref(h) ==
    /\ ~panicking[h]
    /\ ev.h = h /\ ev.op \in {"borrow", "borrow_mut"} /\ ev.res = "ref"
    /\ Kept(ev.c, "shared") + Kept(ev.c, "mut") < MaxRefs
    /\ refs' = [refs EXCEPT ![h][ev.c] =
                  IF ev.op = "borrow" THEN [@ EXCEPT !.shared = @ + 1]
                                      ELSE [@ EXCEPT !.mut = @ + 1]]
    /\ ev' = Event("hold_ref", h, ev.l, ev.c,
                   IF ev.op = "borrow" THEN "shared" ELSE "mut", 0)
    /\ UNCHANGED <<design, locks, holders, alive, ownership, poisoned, guard, token,
                   panicking, cells, atomVars>>

\* a kept reference goes out of scope
drop_ref(h, c, k) ==
    /\ refs[h][c][k] > 0
    /\ refs' = [refs EXCEPT ![h][c][k] = @ - 1]
    /\ ev' = Quiet
    /\ UNCHANGED <<design, locks, holders, alive, ownership, poisoned, guard, token,
                   panicking, cells, atomVars>>

\* client code running under a write guard panics (an unwrap() of an Err, an
\* index out of range, ...): the holder unwinds and drops what it holds
panic(h) ==
    /\ ~panicking[h]
    /\ \E l \in locks : guard[h][l] = "write"
    /\ panicking' = [panicking EXCEPT ![h] = TRUE]
    /\ ev' = Quiet
    /\ UNCHANGED <<refs, design, locks, holders, alive, ownership, poisoned, guard, token,
                   cells, atomVars>>

\* ------------------------------------------------------------- flag design
\* the one MainLock of sync::atomlock
L == "A"

Max(a, b) == IF a >= b THEN a ELSE b
Join(v, w) == [alive |-> Max(v.alive, w.alive), mut |-> Max(v.mut, w.mut)]

\* the value of a flag: the latest store of its modification order
Current(flag) == flag[Len(flag)]

\* write acquisitions made so far (is_mut.store(true) in WriteGuard::new)
Writes == Cardinality({i \in DOMAIN is_mut : is_mut[i]})

\* a holder in the middle of write(), of a WriteGuard drop or of the
\* MainLock drop makes no other call
Busy(h) ==
    \/ guard[h][L] \in {"wlocked", "wdropped"}
    \/ life.st \in {"drop1", "drop2"} /\ life.by = h

\* RwLock acquisition: an acquire operation that synchronises with the
\* unlocks before it
RwLock_lock(h, g) ==
    /\ guard' = [guard EXCEPT ![h][L] = g]
    /\ view' = [view EXCEPT ![h] = Join(view[h], lockView)]

atom_read(h) ==
    /\ design = "atomlock" /\ life.st = "alive" /\ Free(h, L)
    /\ CanRead(L)
    /\ RwLock_lock(h, "read")
    /\ ev' = Event("read", h, L, "none", LockResult(L), 0)
    /\ UNCHANGED <<refs, design, locks, holders, tokenVars, poisoned, panicking, cells,
                   life, is_alive, is_mut, lockView>>

atom_try_read(h) ==
    /\ design = "atomlock" /\ life.st = "alive" /\ Free(h, L)
    /\ IF CanRead(L)
       THEN /\ RwLock_lock(h, "read")
            /\ ev' = Event("try_read", h, L, "none", LockResult(L), 0)
            /\ UNCHANGED <<refs, design, locks, holders, tokenVars, poisoned, panicking,
                           cells, life, is_alive, is_mut, lockView>>
       ELSE Refuse("try_read", h, L, "WouldBlock")

\* self.lock.write() has returned inside write(); WriteGuard::new comes next
atom_write(h) ==
    /\ design = "atomlock" /\ life.st = "alive" /\ Free(h, L)
    /\ Writes < MaxWrites
    /\ CanWrite(L)
    /\ RwLock_lock(h, "wlocked")
    /\ ev' = Quiet
    /\ UNCHANGED <<refs, design, locks, holders, tokenVars, poisoned, panicking, cells,
                   life, is_alive, is_mut, lockView>>

atom_try_write(h) ==
    /\ design = "atomlock" /\ life.st = "alive" /\ Free(h, L)
    /\ Writes < MaxWrites
    /\ IF CanWrite(L)
       THEN /\ RwLock_lock(h, "wlocked")
            /\ ev' = Quiet
            /\ UNCHANGED <<refs, design, locks, holders, tokenVars, poisoned, panicking,
                           cells, life, is_alive, is_mut, lockView>>
       ELSE Refuse("try_write", h, L, "WouldBlock")

\* a Relaxed store: appended to the modification order, seen by the storer
StoreMut(h, b) ==
    /\ is_mut' = Append(is_mut, b)
    /\ view' = [view EXCEPT ![h].mut = Len(is_mut) + 1]

\* faulty variant of WriteGuard_new: the guard of a poisoned result is handed
\* out as it comes from the RwLock, without the store to is_mut
WriteGuard_new_ok_only(h) ==
    /\ design = "atomlock"
    /\ guard[h][L] = "wlocked"
    /\ IF poisoned[L] THEN UNCHANGED <<is_mut, view>> ELSE StoreMut(h, TRUE)
    /\ guard' = [guard EXCEPT ![h][L] = "write"]
    /\ ev' = Event("write", h, L, "none", LockResult(L), 0)
    /\ UNCHANGED <<refs, design, locks, holders, tokenVars, poisoned, panicking, cells,
                   life, is_alive, lockView>>

\* WriteGuard::new: is_mut.store(true, Relaxed); the guard goes to the caller
\* in Ok(..) or in Err(PoisonError(..))
WriteGuard_new(h) ==
    /\ design = "atomlock"
    /\ guard[h][L] = "wlocked"
    /\ StoreMut(h, TRUE)
    /\ guard' = [guard EXCEPT ![h][L] = "write"]
    /\ ev' = Event("write", h, L, "none", LockResult(L), 0)
    /\ UNCHANGED <<refs, design, locks, holders, tokenVars, poisoned, panicking, cells,
                   life, is_alive, lockView>>

\* faulty variant of WriteGuard_drop: the guard is dropped without the store
\* to is_mut
WriteGuard_drop_keeping_flag(h) ==
    /\ design = "atomlock"
    /\ guard[h][L] = "write"
    /\ KeepsNoneIn(h, L)
    /\ guard' = [guard EXCEPT ![h][L] = "wdropped"]
    /\ ev' = Quiet
    /\ UNCHANGED <<refs, design, locks, holders, tokenVars, poisoned, panicking, cells,
                   atomVars>>

\* Drop for WriteGuard: is_mut.store(false, Relaxed); the fields (the
\* RwLockWriteGuard) are dropped after it
WriteGuard_drop(h) ==
    /\ design = "atomlock"
    /\ guard[h][L] = "write"
    /\ KeepsNoneIn(h, L)
    /\ StoreMut(h, FALSE)
    /\ guard' = [guard EXCEPT ![h][L] = "wdropped"]
    /\ ev' = Quiet
    /\ UNCHANGED <<refs, design, locks, holders, tokenVars, poisoned, panicking, cells,
                   life, is_alive, lockView>>

\* RwLockReadGuard / RwLockWriteGuard drop: a release operation; a write
\* guard dropped while unwinding poisons the RwLock
RwLock_unlock(h) ==
    /\ design = "atomlock"
    /\ guard[h][L] \in {"read", "wdropped"}
    /\ KeepsNoneIn(h, L)
    /\ guard' = [guard EXCEPT ![h][L] = "none"]
    /\ lockView' = Join(lockView, view[h])
    /\ poisoned' = [poisoned EXCEPT ![L] =
                      @ \/ (guard[h][L] = "wdropped" /\ panicking[h])]
    /\ ev' = Quiet
    /\ UNCHANGED <<refs, design, locks, holders, tokenVars, panicking, cells, life,
                   is_alive, is_mut, view>>

\* Drop for MainLock, first statement: is_alive.store(false, Relaxed).
\* The lock is dropped by a holder once no guard borrows it.
MainLock_drop_is_alive(h) ==
    /\ design = "atomlock"
    /\ life.st = "alive"
    /\ ~panicking[h]
    /\ \A k \in holders : guard[k][L] = "none"
    /\ is_alive' = Append(is_alive, FALSE)
    /\ view' = [view EXCEPT ![h].alive = Len(is_alive) + 1]
    /\ life' = [st |-> "drop1", by |-> h]
    /\ ev' = Quiet
    /\ UNCHANGED <<refs, design, locks, holders, tokenVars, poisoned, guard, panicking,
                   cells, is_mut, lockView>>

\* Drop for MainLock, second statement: is_mut.store(false, Relaxed)
MainLock_drop_is_mut(h) ==
    /\ design = "atomlock"
    /\ life = [st |-> "drop1", by |-> h]
    /\ StoreMut(h, FALSE)
    /\ life' = [st |-> "drop2", by |-> h]
    /\ ev' = Quiet
    /\ UNCHANGED <<refs, design, locks, holders, tokenVars, poisoned, guard, panicking,
                   cells, is_alive, lockView>>

\* faulty variant of MainLock_drop_fields: the fields are dropped without
\* Drop::drop having run
MainLock_drop_fields_first(h) ==
    /\ design = "atomlock"
    /\ \/ life = [st |-> "drop2", by |-> h]
       \/ life.st = "alive" /\ ~panicking[h] /\ \A k \in holders : guard[k][L] = "none"
    /\ life' = [st |-> "dead", by |-> 0]
    /\ cells' = [c \in Cells |-> IF cells[c].home = L THEN NoCell ELSE cells[c]]
    /\ ev' = Quiet
    /\ UNCHANGED <<refs, design, locks, holders, tokenVars, poisoned, guard, panicking,
                   is_alive, is_mut, view, lockView>>

\* after Drop::drop the fields are dropped: the RwLock<T>, with it the
\* protected value and the sub-cells stored in it
MainLock_drop_fields(h) ==
    /\ design = "atomlock"
    /\ life = [st |-> "drop2", by |-> h]
    /\ life' = [st |-> "dead", by |-> 0]
    /\ cells' = [c \in Cells |-> IF cells[c].home = L THEN NoCell ELSE cells[c]]
    /\ ev' = Quiet
    /\ UNCHANGED <<refs, design, locks, holders, tokenVars, poisoned, guard, panicking,
                   is_alive, is_mut, view, lockView>>

\* faulty variant of atom_SubCell_new: creating a sub-cell marks its record
\* alive
atom_SubCell_new_reviving(h, c, v, home) ==
    /\ design = "atomlock"
    /\ ~panicking[h] /\ ~Busy(h)
    /\ cells[c].st = "absent"
    /\ home \in Homes(h)
    /\ cells' = [cells EXCEPT ![c] =
                   [st |-> "live", home |-> home, owner_key |-> 0, val |-> v,
                    of |-> L]]
    /\ is_alive' = IF Current(is_alive) THEN is_alive ELSE Append(is_alive, TRUE)
    /\ view' = [view EXCEPT ![h].alive = Len(is_alive')]
    /\ ev' = Event("SubCell_new", h, L, c, "ok", v)
    /\ UNCHANGED <<refs, design, locks, holders, tokenVars, poisoned, guard, panicking,
                   life, is_mut, lockView>>

\* SubCell::new(&liveness, value): any clone of the Arc<Liveness> will do,
\* MainLock::liveness() hands one out without a guard
atom_SubCell_new(h, c, v, home) ==
    /\ design = "atomlock"
    /\ ~panicking[h] /\ ~Busy(h)
    /\ cells[c].st = "absent"
    /\ home \in Homes(h)
    /\ cells' = [cells EXCEPT ![c] =
                   [st |-> "live", home |-> home, owner_key |-> 0, val |-> v,
                    of |-> L]]
    /\ ev' = Event("SubCell_new", h, L, c, "ok", v)
    /\ UNCHANGED <<refs, design, locks, holders, tokenVars, poisoned, guard, panicking,
                   atomVars>>

\* assert!(...load(Relaxed)) failed: the holder unwinds
atom_AssertFailed(op, h, c) ==
    /\ panicking' = [panicking EXCEPT ![h] = TRUE]
    /\ ev' = Event(op, h, L, c, "panic", 0)
    /\ UNCHANGED <<refs, design, locks, holders, tokenVars, poisoned, guard, cells, life,
                   is_alive, is_mut, lockView>>

\* a Relaxed load returns a store the loader's view has not passed
Loadable(seq, from) == from..Len(seq)

\* faulty variant of atom_borrow: the access waits until the lock can be read
atom_borrow_locking(h, c) ==
    /\ design = "atomlock"
    /\ ~panicking[h] /\ ~Busy(h)
    /\ CanReach(h, c)
    /\ Writers(L) \subseteq {h}
    /\ \E i \in Loadable(is_alive, view[h].alive) :
          /\ view' = [view EXCEPT ![h].alive = i]
          /\ IF is_alive[i]
             THEN /\ ev' = Event("borrow", h, L, c, "ref", cells[c].val)
                  /\ UNCHANGED <<refs, design, locks, holders, tokenVars, poisoned, guard,
                                 panicking, cells, life, is_alive, is_mut, lockView>>
             ELSE atom_AssertFailed("borrow", h, c)

\* SubCell::borrow(): one load of is_alive
atom_borrow(h, c) ==
    /\ design = "atomlock"
    /\ ~panicking[h] /\ ~Busy(h)
    /\ CanReach(h, c)
    /\ \E i \in Loadable(is_alive, view[h].alive) :
          /\ view' = [view EXCEPT ![h].alive = i]
          /\ IF is_alive[i]
             THEN /\ ev' = Event("borrow", h, L, c, "ref", cells[c].val)
                  /\ UNCHANGED <<refs, design, locks, holders, tokenVars, poisoned, guard,
                                 panicking, cells, life, is_alive, is_mut, lockView>>
             ELSE atom_AssertFailed("borrow", h, c)

\* *SubCell::borrow_mut() = v: a load of is_alive, then a load of is_mut
atom_borrow_mut(h, c, v) ==
    /\ design = "atomlock"
    /\ ~panicking[h] /\ ~Busy(h)
    /\ CanReach(h, c)
    /\ \E i \in Loadable(is_alive, view[h].alive) :
          IF ~is_alive[i]
          THEN /\ view' = [view EXCEPT ![h].alive = i]
               /\ atom_AssertFailed("borrow_mut", h, c)
          ELSE \E j \in Loadable(is_mut, view[h].mut) :
                  /\ view' = [view EXCEPT ![h] = [alive |-> i, mut |-> j]]
                  /\ IF is_mut[j]
                     THEN /\ cells' = [cells EXCEPT ![c].val = v]
                          /\ ev' = Event("borrow_mut", h, L, c, "ref", v)
                          /\ UNCHANGED <<refs, design, locks, holders, tokenVars, poisoned,
                                         guard, panicking, life, is_alive, is_mut,
                                         lockView>>
                     ELSE atom_AssertFailed("borrow_mut", h, c)

\* ------------------------------------------------------------- specification
InitToken ==
    /\ design \in {"prooflock", "proofcell"}
    /\ \/ locks = {"A", "B"} /\ holders = {1}
       \/ locks = {"A"} /\ holders = Holders
    /\ life = [st |-> "none", by |-> 0]
    /\ is_alive = <<>>
    /\ is_mut = <<>>
    /\ view = [h \in Holders |-> [alive |-> 0, mut |-> 0]]
    /\ lockView = [alive |-> 0, mut |-> 0]

\* MainLock::new of sync::atomlock has run: is_alive = true, is_mut = false
InitAtom ==
    /\ design = "atomlock"
    /\ locks = {L} /\ holders = Holders
    /\ life = [st |-> "alive", by |-> 0]
    /\ is_alive = <<TRUE>>
    /\ is_mut = <<FALSE>>
    /\ view = [h \in Holders |-> [alive |-> 1, mut |-> 1]]
    /\ lockView = [alive |-> 1, mut |-> 1]

Init ==
    /\ InitToken \/ InitAtom
    /\ alive = [l \in Locks |-> FALSE]
    /\ ownership = [l \in Locks |-> 0]
    /\ poisoned = [l \in Locks |-> FALSE]
    /\ guard = [h \in Holders |-> [l \in Locks |-> "none"]]
    /\ token = [h \in Holders |-> [l \in Locks |-> NoToken]]
    /\ panicking = [h \in Holders |-> FALSE]
    /\ cells = [c \in Cells |-> NoCell]
    /\ refs = [h \in Holders |-> [c \in Cells |-> NoRefs]]
    /\ ev = Quiet

NextToken ==
    \/ \E l \in locks, a \in Addrs : new(l, a)
    \/ \E l \in locks : drop_main(l)
    \/ \E h \in holders, l \in locks : read(h, l)
    \/ \E h \in holders, l \in locks : try_read(h, l)
    \/ \E h \in holders, l \in locks : write(h, l)
    \/ \E h \in holders, l \in locks : try_write(h, l)
    \/ \E h \in holders, l \in locks : try_borrow(h, l)
    \/ \E h \in holders, l \in locks : try_borrow_mut(h, l)
    \/ \E h \in holders, l \in locks : drop_guard(h, l)
    \/ \E h \in holders, l \in locks : drop_proof(h, l)
    \/ \E h \in holders, l \in locks, c \in Cells : borrow(h, l, c)
    \/ \E h \in holders, l \in locks, c \in Cells, v \in Vals :
          borrow_mut(h, l, c, v)
    \/ \E h \in holders, l \in locks, c \in Cells, v \in Vals,
          home \in Locks \cup {"outside"} : SubCell_new(h, l, c, v, home)

NextAtom ==
    \/ \E h \in holders : atom_read(h)
    \/ \E h \in holders : atom_try_read(h)
    \/ \E h \in holders : atom_write(h)
    \/ \E h \in holders : atom_try_write(h)
    \/ \E h \in holders : WriteGuard_new(h)
    \/ \E h \in holders : WriteGuard_drop(h)
    \/ \E h \in holders : RwLock_unlock(h)
    \/ \E h \in holders : MainLock_drop_is_alive(h)
    \/ \E h \in holders : MainLock_drop_is_mut(h)
    \/ \E h \in holders : MainLock_drop_fields(h)
    \/ \E h \in holders, c \in Cells : atom_borrow(h, c)
    \/ \E h \in holders, c \in Cells, v \in Vals : atom_borrow_mut(h, c, v)
    \/ \E h \in holders, c \in Cells, v \in Vals,
          home \in Locks \cup {"outside"} : atom_SubCell_new(h, c, v, home)

Next ==
    \/ NextToken
    \/ NextAtom
    \/ \E h \in holders : panic(h)

Spec == Init /\ [][Next]_vars

\* clients that keep the references they get from sub-cells
NextRefs ==
    \/ Next
    \/ \E h \in holders : hold_ref(h)
    \/ \E h \in holders, c \in Cells, k \in {"shared", "mut"} : drop_ref(h, c, k)

SpecRefs == Init /\ [][NextRefs]_vars

\* ------------------------------------------------------------- claims
TokenDesign == design \in {"prooflock", "proofcell"}
Handed(res) == res \in {"ok", "poisoned"}
Held(l) == Readers(l) \cup Writers(l)

\* C1: whenever a sub-cell accepts a token (borrow / borrow_mut returns a
\* reference), the guard handed out with that token is still outstanding.
C1_TokenOnlyWhileGuardHeld ==
    (TokenDesign /\ ev.op \in {"borrow", "borrow_mut"} /\ ev.res = "ref")
        => guard[ev.h][ev.l] # "none"

\* C2: in sync::prooflock, borrow_mut returns a mutable reference only while
\* the caller holds the write guard of the lock that owns the sub-cell, and
\* never while a read guard on that lock is outstanding.
C2_BorrowMutUnderWriteGuard ==
    (design = "prooflock" /\ ev.op = "borrow_mut" /\ ev.res = "ref"
     /\ cells[ev.c].of \in Locks)
        => /\ guard[ev.h][cells[ev.c].of] = "write"
           /\ Readers(cells[ev.c].of) = {}

\* C3: in sync::atomlock, borrow returns a reference only while a read guard
\* or a write guard on the MainLock is outstanding.
C3_BorrowUnderGuard ==
    (design = "atomlock" /\ ev.op = "borrow" /\ ev.res = "ref")
        => Held(L) # {}

\* C4: in sync::atomlock, borrow_mut passes its assertions only while a write
\* guard on the MainLock is outstanding.
C4_BorrowMutUnderWriteGuard ==
    (design = "atomlock" /\ ev.op = "borrow_mut" /\ ev.res = "ref")
        => Writers(L) # {}

\* C5: a token minted by one live instance, presented to a sub-cell created
\* with a ProofMut of another live instance, ends in the fatal assertion.
C5_ForeignTokenRejected ==
    (TokenDesign /\ ev.op \in {"borrow", "borrow_mut"}
     /\ cells[ev.c].of \in Locks /\ cells[ev.c].of # ev.l
     /\ alive[ev.l] /\ alive[cells[ev.c].of])
        => ev.res = "panic"

\* C6: no two distinct instances that are alive at the same time hold equal
\* ownership keys.
C6_KeysUnique ==
    \A l1, l2 \in Locks :
        (l1 # l2 /\ alive[l1] /\ alive[l2]) => ownership[l1] # ownership[l2]

\* C7: in sync::atomlock, once the MainLock has been dropped, every borrow and
\* borrow_mut on a sub-cell of its Liveness record fails with the assertion.
C7_BorrowAfterDropFails ==
    (design = "atomlock" /\ life.st = "dead"
     /\ ev.op \in {"borrow", "borrow_mut"})
        => ev.res = "panic"

\* C8: SubCell::new succeeds only while its creator holds the write guard of
\* the MainLock / MainCell the sub-cell is bound to.
C8_SubCellNewUnderWriteGuard ==
    ev.op = "SubCell_new" => guard[ev.h][ev.l] = "write"

\* C9: every lock has no guard, read guards only, or exactly one write guard
\* and no read guard; a read acquisition hands out its guard only when no
\* write guard is outstanding, a write acquisition only when no other guard is.
C9_ReaderWriterExclusion ==
    /\ \A l \in Locks :
          \/ Writers(l) = {}
          \/ Cardinality(Writers(l)) = 1 /\ Readers(l) = {}
    /\ (ev.op \in {"read", "try_read", "try_borrow"} /\ Handed(ev.res))
          => guard[ev.h][ev.l] = "read" /\ Writers(ev.l) = {}
    /\ (ev.op \in {"write", "try_write", "try_borrow_mut"} /\ Handed(ev.res))
          => guard[ev.h][ev.l] = "write" /\ Held(ev.l) = {ev.h}

\* two read guards on one lock, the second just handed out by read()
C9_Witness ==
    /\ ev.op = "read" /\ Handed(ev.res)
    /\ Cardinality(Readers(ev.l)) >= 2

\* C10: a sub-cell's payload and its place in the protected value change only
\* by a write to that sub-cell through borrow_mut (or with the destruction of
\* the lock that stores it): no guard acquisition or release changes them,
\* and borrow on a sub-cell found in the protected value returns the payload
\* as last written.
C10_Step ==
    \A c \in Cells :
        /\ cells[c].st = "live" =>
              \/ /\ cells'[c].st = "live"
                 /\ cells'[c].home = cells[c].home
                 /\ cells'[c].val = cells[c].val
              \/ /\ ev'.op = "borrow_mut" /\ ev'.c = c /\ ev'.res = "ref"
                 /\ cells'[c] = [cells[c] EXCEPT !.val = ev'.val]
              \/ /\ cells'[c] = NoCell
                 /\ cells[c].home \in Locks
                 /\ IF design = "atomlock" THEN life'.st = "dead"
                                           ELSE ~alive'[cells[c].home]
        /\ (ev'.op = "borrow" /\ ev'.c = c /\ ev'.res = "ref" /\ ev' # ev
            /\ cells[c].home \in Locks) =>
              /\ cells'[c] = cells[c]
              /\ ev'.val = cells[c].val

C10_RoundTrip == [][C10_Step]_vars

\* a sub-cell stored in the protected value is read under a read guard and
\* yields 99
C10_Witness ==
    /\ ev.op = "borrow" /\ ev.res = "ref" /\ ev.val = 99
    /\ cells[ev.c].home \in Locks
    /\ guard[ev.h][cells[ev.c].home] = "read"

\* C11: try_read and try_write never wait. A holder that may call them always
\* gets an outcome at once: WouldBlock when the conflicting guard (a write
\* guard for try_read, any guard for try_write) is outstanding, a guard when
\* it is not.
C11_Returns ==
    \A h \in holders, l \in locks :
        /\ (design = "prooflock" /\ alive[l] /\ Free(h, l)) =>
              ENABLED try_read(h, l) /\ ENABLED try_write(h, l)
        /\ (design = "atomlock" /\ life.st = "alive" /\ Free(h, l)) =>
              /\ ENABLED atom_try_read(h)
              /\ Writes < MaxWrites => ENABLED atom_try_write(h)
        /\ (design = "atomlock" /\ guard[h][l] = "wlocked") =>
              ENABLED WriteGuard_new(h)

C11_Outcome ==
    /\ ev'.op = "try_read" =>
          IF Writers(ev'.l) # {}
          THEN ev'.res = "WouldBlock"
          ELSE Handed(ev'.res) /\ guard'[ev'.h][ev'.l] = "read"
    /\ ev'.op = "try_write" =>
          IF Held(ev'.l) # {}
          THEN ev'.res = "WouldBlock"
          ELSE Handed(ev'.res) /\ guard'[ev'.h][ev'.l] = "write"

C12_Step ==
    ev'.res \in {"WouldBlock", "BorrowError", "BorrowMutError"} =>
        UNCHANGED <<alive, ownership, poisoned, guard, token, panicking, cells,
                    life, is_alive, is_mut>>

C12_FailedTryChangesNothing == [][C12_Step]_vars

\* try_write answered WouldBlock while read guards were outstanding
C12_Witness ==
    /\ ev.op = "try_write" /\ ev.res = "WouldBlock"
    /\ Readers(ev.l) # {}

\* C13: a write guard released by a panicking holder poisons its lock; the
\* lock stays poisoned for as long as it lives; every read, try_read, write
\* and try_write that acquires a poisoned lock reports the poisoned outcome
\* (and only then), and the outcome carries the guard and, in the token
\* design, the token of the lock.
C13_Outcome ==
    /\ (ev.op \in {"read", "try_read"} /\ Handed(ev.res)) =>
          /\ ev.res = "poisoned" <=> poisoned[ev.l]
          /\ guard[ev.h][ev.l] = "read"
          /\ design = "prooflock" => token[ev.h][ev.l] = Proof(ownership[ev.l])
    /\ (ev.op \in {"write", "try_write"} /\ Handed(ev.res)) =>
          /\ ev.res = "poisoned" <=> poisoned[ev.l]
          /\ guard[ev.h][ev.l] = "write"
          /\ design = "prooflock" => token[ev.h][ev.l] = ProofMut(ownership[ev.l])

C13_Step ==
    \A l \in locks :
        /\ \A h \in holders :
              (/\ design \in {"prooflock", "atomlock"}
               /\ panicking[h]
               /\ guard[h][l] \in {"write", "wdropped"}
               /\ guard'[h][l] = "none") => poisoned'[l]
        /\ (poisoned[l] /\ ~poisoned'[l]) => (design = "prooflock" /\ ~alive'[l])

C13_PoisonedCarriesGuard == []C13_Outcome /\ [][C13_Step]_vars

\* a read() on a poisoned lock has just handed out its pair
C13_Witness ==
    /\ ev.op = "read" /\ ev.res = "poisoned"
    /\ guard[ev.h][ev.l] = "read"

\* C14: a poisoned outcome comes with the access-control state of a
\* successful one. In sync::atomlock the holder of a write guard taken from a
\* poisoned lock can only load is_alive = true and is_mut = true, so its
\* borrow_mut passes, and the store made when that guard is dropped leaves
\* is_mut false; in sync::prooflock the token of a poisoned outcome carries
\* the key of the lock.
C14_State ==
    /\ \A h \in holders :
          (design = "atomlock" /\ poisoned[L] /\ guard[h][L] = "write") =>
              /\ \A i \in Loadable(is_alive, view[h].alive) : is_alive[i]
              /\ \A j \in Loadable(is_mut, view[h].mut) : is_mut[j]
    /\ (design = "atomlock" /\ ev.op = "borrow_mut" /\ poisoned[L]
        /\ guard[ev.h][L] = "write") => ev.res = "ref"
    /\ (design = "prooflock" /\ ev.res = "poisoned") =>
          /\ token[ev.h][ev.l] # NoToken
          /\ token[ev.h][ev.l].key = ownership[ev.l]

C14_Step ==
    \A h \in holders :
        (design = "atomlock" /\ poisoned[L] /\ guard[h][L] = "write"
         /\ guard'[h][L] # "write") =>
            /\ is_mut'[Len(is_mut')] = FALSE
            /\ guard'[h][L] = "wdropped"

C14_PoisonedSameAccess == []C14_State /\ [][C14_Step]_vars

\* borrow_mut has passed under a write guard taken from a poisoned lock
C14_Witness ==
    /\ design = "atomlock" /\ poisoned[L]
    /\ ev.op = "borrow_mut" /\ ev.res = "ref"
    /\ guard[ev.h][L] = "write"

\* C15: in cell::proofcell, try_borrow hands out a (Proof, guard) pair exactly
\* when no write guard is outstanding and try_borrow_mut a (ProofMut, guard)
\* pair exactly when no guard is outstanding; otherwise they return their
\* error at once, without blocking and without a panic; a MainCell has one
\* write guard or any number of read guards, never both.
C15_State ==
    design = "proofcell" =>
        \A l \in locks :
            /\ \/ Writers(l) = {}
               \/ Cardinality(Writers(l)) = 1 /\ Readers(l) = {}
            /\ \A h \in holders :
                  (alive[l] /\ Free(h, l)) =>
                      ENABLED try_borrow(h, l) /\ ENABLED try_borrow_mut(h, l)

C15_Step ==
    /\ ev'.op = "try_borrow" =>
          /\ panicking' = panicking
          /\ IF Writers(ev'.l) = {}
             THEN /\ ev'.res = "ok"
                  /\ guard'[ev'.h][ev'.l] = "read"
                  /\ token'[ev'.h][ev'.l] = Proof(ownership[ev'.l])
             ELSE ev'.res = "BorrowError"
    /\ ev'.op = "try_borrow_mut" =>
          /\ panicking' = panicking
          /\ IF Held(ev'.l) = {}
             THEN /\ ev'.res = "ok"
                  /\ guard'[ev'.h][ev'.l] = "write"
                  /\ token'[ev'.h][ev'.l] = ProofMut(ownership[ev'.l])
             ELSE ev'.res = "BorrowMutError"

C15_CellBorrowExact == []C15_State /\ [][C15_Step]_vars

\* try_borrow_mut was refused because of an outstanding read guard
C15_Witness ==
    /\ ev.op = "try_borrow_mut" /\ ev.res = "BorrowMutError"
    /\ Readers(ev.l) # {} /\ Writers(ev.l) = {}

\* C16: in sync::atomlock the Liveness record starts with is_alive = true and
\* is_mut = false; is_mut is true exactly while a write guard handed to a
\* caller is outstanding, never while a read guard is outstanding, and no
\* acquisition or release of a read guard stores to it.
C16_State ==
    design = "atomlock" =>
        /\ is_alive[1] = TRUE /\ is_mut[1] = FALSE
        /\ Current(is_mut) <=> (\E h \in holders : guard[h][L] = "write")
        /\ Readers(L) # {} => ~Current(is_mut)

C16_Step ==
    \A h \in holders :
        (design = "atomlock" /\ guard[h][L] # guard'[h][L]
         /\ "read" \in {guard[h][L], guard'[h][L]}) => is_mut' = is_mut

C16_IsMutTracksWriteGuard == []C16_State /\ [][C16_Step]_vars

\* a panicking holder still has its write guard: is_mut is true
C16_Witness ==
    /\ design = "atomlock" /\ Current(is_mut)
    /\ \E h \in holders : guard[h][L] = "write" /\ panicking[h]

\* C17: when the MainLock of sync::atomlock is destroyed, is_alive is false
\* before the protected value and the sub-cells stored in it are released:
\* the storage is never released while is_alive is true.
C17_State ==
    (design = "atomlock" /\ life.st = "dead") => ~Current(is_alive)

C17_Step ==
    (design = "atomlock"
     /\ \/ life.st # "dead" /\ life'.st = "dead"
        \/ \E c \in Cells : cells[c].home = L /\ cells'[c] = NoCell)
        => ~Current(is_alive) /\ ~Current(is_alive')

C17_DeadBeforeRelease == []C17_State /\ [][C17_Step]_vars

\* the MainLock has been destroyed after a write guard had been used
C17_Witness ==
    /\ design = "atomlock" /\ life.st = "dead"
    /\ ~Current(is_alive)
    /\ Len(is_mut) > 2

\* C18: sub-cell access never waits. Whatever guards are outstanding, a
\* holder that can name a sub-cell (and, in the token designs, has a token to
\* present) can take its borrow / borrow_mut step; the step ends in a
\* reference or in the fatal assertion and changes neither the guards, the
\* poison status nor the liveness flags.
C18_State ==
    \A h \in holders, c \in Cells :
        /\ (design = "atomlock" /\ ~panicking[h] /\ ~Busy(h) /\ CanReach(h, c)) =>
              /\ ENABLED atom_borrow(h, c)
              /\ \A v \in Vals : ENABLED atom_borrow_mut(h, c, v)
        /\ \A l \in locks :
              /\ (TokenDesign /\ ~panicking[h] /\ CanReach(h, c)
                  /\ token[h][l] # NoToken) => ENABLED borrow(h, l, c)
              /\ (TokenDesign /\ ~panicking[h] /\ CanReach(h, c)
                  /\ token[h][l].kind = "ProofMut") =>
                    \A v \in Vals : ENABLED borrow_mut(h, l, c, v)

C18_Step ==
    ev'.op \in {"borrow", "borrow_mut"} =>
        /\ ev'.res \in {"ref", "panic"}
        /\ UNCHANGED <<alive, poisoned, guard, token, life, is_alive, is_mut,
                       lockView>>

C18_SubCellAccessNeverWaits == []C18_State /\ [][C18_Step]_vars

\* a borrow returned its reference while another holder had the write guard
C18_Witness ==
    /\ ev.op = "borrow" /\ ev.res = "ref"
    /\ Writers(ev.l) # {} /\ ev.h \notin Writers(ev.l)

\* C19: in sync::atomlock, a borrow or borrow_mut that follows the completed
\* destruction of the MainLock loads is_alive = false, whatever thread makes
\* the call and without any other synchronisation with the destroying thread.
C19_DropVisibleToAll ==
    (design = "atomlock" /\ life.st = "dead"
     /\ ev.op \in {"borrow", "borrow_mut"})
        => ~is_alive[view[ev.h].alive]

\* C20: in sync::atomlock is_alive is monotonic: it is true for as long as
\* the MainLock has not begun its drop, false from then on, and no operation
\* stores true to it again; a thread that has loaded false never loads true
\* afterwards; is_mut is false from the end of Drop for MainLock on.
C20_State ==
    design = "atomlock" =>
        /\ Current(is_alive) <=> life.st = "alive"
        /\ \A i, j \in DOMAIN is_alive : (i < j /\ ~is_alive[i]) => ~is_alive[j]
        /\ life.st \in {"drop2", "dead"} => ~Current(is_mut)

C20_Step ==
    design = "atomlock" =>
        /\ ~Current(is_alive) => ~Current(is_alive')
        /\ \A h \in holders : view'[h].alive >= view[h].alive
        /\ (life.st \in {"drop2", "dead"}) => is_mut' = is_mut

C20_IsAliveMonotonic == []C20_State /\ [][C20_Step]_vars

\* a sub-cell has been created with the record of a destroyed MainLock
C20_Witness ==
    /\ design = "atomlock" /\ life.st = "dead"
    /\ ev.op = "SubCell_new"
    /\ ~Current(is_alive) /\ ~Current(is_mut)

\* C21: a sub-cell never has two mutable references outstanding, nor a
\* mutable reference together with a shared one.
C21_NoAliasedMut ==
    \A c \in Cells :
        /\ Kept(c, "mut") <= 1
        /\ Kept(c, "mut") = 1 => Kept(c, "shared") = 0

\* C22: in sync::atomlock, borrow_mut returns a mutable reference only to a
\* caller that itself holds the write guard of the MainLock.
C22_BorrowMutByHolderOnly ==
    (design = "atomlock" /\ ev.op = "borrow_mut" /\ ev.res = "ref")
        => guard[ev.h][L] = "write"

====
